---- MODULE Spec2Model ----
(***************************************************************************)
(* Model of tools/skills/assign_skills.py: the skill-assignment scoring    *)
(* engine (score_skill, detect_composite_skills, assign_skills_to_goal)    *)
(* together with the goal-file frontmatter round trip it reads and writes. *)
(*                                                                         *)
(* A Python str is modelled as a sequence of one-character strings, so     *)
(* that substring tests, case folding, str.split, str.replace, json.dumps  *)
(* and yaml.dump / yaml.safe_load are computed character by character.     *)
(* An optional value (Python None or a value) is None or Some(x).          *)
(***************************************************************************)
EXTENDS Integers, Sequences, FiniteSets, TLC

\* LET x == e IN F(x), with e computed once however often F uses x
Bind(e, F(_)) == CHOOSE r \in {F(x) : x \in {e}} : TRUE

None == << >>
Some(x) == << x >>
IsNone(o) == Len(o) = 0
TheValue(o) == o[1]

(***************************************************************************)
(* Bounds of the model.                                                    *)
(***************************************************************************)
MaxSkills == 2
MaxFileLen == 150

(***************************************************************************)
(* Policy constants of the scorer and the resolver.                        *)
(***************************************************************************)
KeywordPoints == 1
GoalPatternPoints == 3
FileTypePoints == 2
WildcardPoints == 2
DensityMin == 2
Threshold == 2
CompositeScore == 1
MaxReasonKeywords == 5

(***************************************************************************)
(* Python string primitives.                                               *)
(***************************************************************************)
LowerOf ==
  [c \in {"A","B","C","D","E","F","G","H","I","J","K","L","M",
          "N","O","P","Q","R","S","T","U","V","W","X","Y","Z"} |->
     CASE c = "A" -> "a" [] c = "B" -> "b" [] c = "C" -> "c" [] c = "D" -> "d"
       [] c = "E" -> "e" [] c = "F" -> "f" [] c = "G" -> "g" [] c = "H" -> "h"
       [] c = "I" -> "i" [] c = "J" -> "j" [] c = "K" -> "k" [] c = "L" -> "l"
       [] c = "M" -> "m" [] c = "N" -> "n" [] c = "O" -> "o" [] c = "P" -> "p"
       [] c = "Q" -> "q" [] c = "R" -> "r" [] c = "S" -> "s" [] c = "T" -> "t"
       [] c = "U" -> "u" [] c = "V" -> "v" [] c = "W" -> "w" [] c = "X" -> "x"
       [] c = "Y" -> "y" [] c = "Z" -> "z"]

\* str.lower()
lower(s) ==
  Bind(s, LAMBDA v :
    SubSeq([i \in 1..Len(v) |-> IF v[i] \in DOMAIN LowerOf THEN LowerOf[v[i]] ELSE v[i]],
           1, Len(v)))

\* sub occurs in s at index i (1-based)
OccursAt(s, sub, i) ==
  /\ i >= 1
  /\ i + Len(sub) - 1 <= Len(s)
  /\ \A k \in 1..Len(sub) : s[i + k - 1] = sub[k]

\* Python "sub in s"
Contains(s, sub) ==
  \E v \in {s}, w \in {sub} : \E i \in 1..(Len(v) - Len(w) + 1) : OccursAt(v, w, i)

\* str.startswith
StartsWith(s, prefix) == OccursAt(s, prefix, 1)

\* str.find from index from (1-based); 0 when absent
Find(s, sub, from) ==
  Bind(<< s, sub, from >>, LAMBDA a :
    Bind({i \in a[3]..(Len(a[1]) - Len(a[2]) + 1) : OccursAt(a[1], a[2], i)},
         LAMBDA hits :
           IF hits = {} THEN 0 ELSE CHOOSE i \in hits : \A j \in hits : i <= j))

\* s[from:] (1-based from)
Suffix(s, from) == SubSeq(s, from, Len(s))

\* sep.join(items)
RECURSIVE JoinFrom(_, _, _)
JoinFrom(items, sep, i) ==
  IF i > Len(items) THEN << >>
  ELSE IF i = Len(items) THEN items[i]
  ELSE items[i] \o sep \o JoinFrom(items, sep, i + 1)
Join(items, sep) == Bind(items, LAMBDA v : JoinFrom(v, sep, 1))

\* str.split(sep, maxsplit) from index from on, sep non-empty; maxsplit < 0: no limit
RECURSIVE SplitFrom(_, _, _, _)
SplitFrom(s, sep, from, maxsplit) ==
  Bind(IF maxsplit = 0 THEN 0 ELSE Find(s, sep, from), LAMBDA i :
    IF i = 0 THEN << Suffix(s, from) >>
    ELSE << SubSeq(s, from, i - 1) >> \o SplitFrom(s, sep, i + Len(sep), maxsplit - 1))

\* str.split(sep)
Split(s, sep) == Bind(s, LAMBDA v : SplitFrom(v, sep, 1, -1))

\* str.split(sep, maxsplit)
SplitMax(s, sep, maxsplit) == Bind(s, LAMBDA v : SplitFrom(v, sep, 1, maxsplit))

\* str.replace(old, new), every non-overlapping occurrence, left to right
RECURSIVE ReplaceFrom(_, _, _, _)
ReplaceFrom(s, old, new, from) ==
  Bind(Find(s, old, from), LAMBDA i :
    IF i = 0 THEN Suffix(s, from)
    ELSE SubSeq(s, from, i - 1) \o new \o ReplaceFrom(s, old, new, i + Len(old)))
Replace(s, old, new) == Bind(s, LAMBDA v : ReplaceFrom(v, old, new, 1))

\* str.strip()
Strip(s) ==
  Bind(s, LAMBDA v :
    Bind({i \in 1..Len(v) : v[i] \notin {" ", "\n", "\t"}}, LAMBDA keep :
      IF keep = {} THEN << >>
      ELSE SubSeq(v, CHOOSE i \in keep : \A j \in keep : i <= j,
                     CHOOSE i \in keep : \A j \in keep : i >= j)))

\* str(n) for n >= 0
RECURSIVE IntToStr(_)
IntToStr(n) ==
  LET d == <<"0","1","2","3","4","5","6","7","8","9">>
  IN  IF n < 10 THEN << d[n + 1] >> ELSE IntToStr(n \div 10) \o << d[(n % 10) + 1] >>

\* dict.get(key, default) on a record whose keys may be missing
Get(d, key, default) == IF key \in DOMAIN d THEN d[key] ELSE default

(***************************************************************************)
(* re.search for the pattern syntax the registry uses: an optional leading *)
(* "^", literal characters and ".*" (any run of characters but newline).   *)
(***************************************************************************)
NoNewline(s, from, to) == \A k \in from..to : s[k] # "\n"

RECURSIVE MatchParts(_, _, _, _)
MatchParts(parts, k, s, q) ==
  /\ OccursAt(s, parts[k], q)
  /\ \/ k = Len(parts)
     \/ \E q2 \in (q + Len(parts[k]))..(Len(s) + 1) :
          /\ NoNewline(s, q + Len(parts[k]), q2 - 1)
          /\ MatchParts(parts, k + 1, s, q2)

re_search(pattern, s) ==
  LET anchored == Len(pattern) > 0 /\ pattern[1] = "^"
      body == IF anchored THEN Tail(pattern) ELSE pattern
  IN  \E parts \in {Split(body, <<".","*">>)}, v \in {s} :
        \E q \in (IF anchored THEN {1} ELSE 1..(Len(v) + 1)) :
          MatchParts(parts, 1, v, q)

(***************************************************************************)
(* json.dumps with the default separators, on a parsed JSON document:      *)
(* [t |-> "object", v |-> <<key, value>> pairs], [t |-> "array", v |->     *)
(* values] or [t |-> "string", v |-> characters].                          *)
(***************************************************************************)
RECURSIVE json_dumps(_)
json_dumps(x) ==
  CASE x.t = "string" -> <<"\"">> \o x.v \o <<"\"">>
    [] x.t = "array" ->
         <<"[">> \o Join([i \in 1..Len(x.v) |-> json_dumps(x.v[i])], <<","," ">>) \o <<"]">>
    [] x.t = "object" ->
         <<"{">>
         \o Join([i \in 1..Len(x.v) |->
                    <<"\"">> \o x.v[i][1] \o <<"\"",":"," ">> \o json_dumps(x.v[i][2])], <<","," ">>)
         \o <<"}">>

\* Python truth value of an optional parsed JSON document
Truthy(o) == ~IsNone(o) /\ Len(TheValue(o).v) > 0

(***************************************************************************)
(* Goal-file frontmatter.  A frontmatter dict is an ordered sequence of    *)
(* <<key, entry>> pairs; an entry is [list |-> BOOLEAN, items |-> strings] *)
(* (a scalar is a one-item entry with list = FALSE).  yaml_dump and        *)
(* yaml_safe_load cover the block-style YAML that yaml.dump produces for   *)
(* such a dict.                                                            *)
(***************************************************************************)
EmptyDict == [x \in {} |-> x]
Scalar(s) == [list |-> FALSE, items |-> << s >>]
List(items) == [list |-> TRUE, items |-> items]

FmHas(fm, key) == \E i \in 1..Len(fm) : fm[i][1] = key
FmGet(fm, key) == fm[CHOOSE i \in 1..Len(fm) : fm[i][1] = key][2]
\* frontmatter[key] = entry: an existing key keeps its place, a new one goes last
FmSet(fm, key, entry) ==
  IF FmHas(fm, key)
  THEN [i \in 1..Len(fm) |-> IF fm[i][1] = key THEN << key, entry >> ELSE fm[i]]
  ELSE Append(fm, << key, entry >>)

\* a plain scalar that would not be read back as a string is single-quoted
NeedsQuote(s) ==
  \/ Len(s) = 0
  \/ \A i \in 1..Len(s) : s[i] \in {"0","1","2","3","4","5","6","7","8","9","-"}
yaml_scalar(s) == IF NeedsQuote(s) THEN <<"'">> \o s \o <<"'">> ELSE s

yaml_entry(pair) ==
  LET key == pair[1]
      e == pair[2]
  IN  IF e.list
      THEN IF Len(e.items) = 0 THEN key \o <<":"," ","[","]","\n">>
           ELSE key \o <<":","\n">>
                \o Join([i \in 1..Len(e.items) |->
                           <<"-"," ">> \o yaml_scalar(e.items[i]) \o <<"\n">>], << >>)
      ELSE key \o <<":"," ">> \o yaml_scalar(e.items[1]) \o <<"\n">>

\* yaml.dump(frontmatter, default_flow_style=False, sort_keys=False)
yaml_dump(fm) ==
  Bind(fm, LAMBDA d : Join([i \in 1..Len(d) |-> yaml_entry(d[i])], << >>))

YamlQuoted(v) == Len(v) > 0 /\ v[1] = "'"
YamlQuoteClosed(v) == Len(v) >= 2 /\ v[Len(v)] = "'"
YamlUnquote(v) == IF YamlQuoted(v) THEN SubSeq(v, 2, Len(v) - 1) ELSE v

\* one line of a block mapping folded into the dict read so far
yaml_line(acc, line) ==
  LET colon == Find(line, <<":"," ">>, 1)
      n == Len(acc.fm)
  IN  IF ~acc.ok \/ Len(Strip(line)) = 0 THEN acc
      ELSE IF StartsWith(line, <<"-"," ">>)
      THEN LET v == Suffix(line, 3)
           IN  IF n = 0 \/ ~acc.fm[n][2].list \/ (YamlQuoted(v) /\ ~YamlQuoteClosed(v))
               THEN [ok |-> FALSE, fm |-> << >>]
               ELSE [ok |-> TRUE,
                     fm |-> [acc.fm EXCEPT ![n] =
                               << acc.fm[n][1],
                                  List(Append(acc.fm[n][2].items, YamlUnquote(v))) >>]]
      ELSE IF colon > 1
      THEN LET key == SubSeq(line, 1, colon - 1)
               v == Suffix(line, colon + 2)
           IN  IF YamlQuoted(v) /\ ~YamlQuoteClosed(v)
               THEN [ok |-> FALSE, fm |-> << >>]
               ELSE [ok |-> TRUE,
                     fm |-> FmSet(acc.fm, key,
                                  IF v = <<"[","]">> THEN List(<< >>)
                                  ELSE Scalar(YamlUnquote(v)))]
      ELSE IF Len(line) > 1 /\ line[Len(line)] = ":"
      THEN [ok |-> TRUE,
            fm |-> FmSet(acc.fm, SubSeq(line, 1, Len(line) - 1), List(<< >>))]
      ELSE [ok |-> FALSE, fm |-> << >>]

RECURSIVE yaml_lines(_, _, _)
yaml_lines(acc, lines, i) ==
  IF i > Len(lines) THEN acc
  ELSE Bind(yaml_line(acc, lines[i]), LAMBDA a : yaml_lines(a, lines, i + 1))

\* yaml.safe_load(text) or {}, with a YAMLError read as {}
yaml_safe_load(text) ==
  Bind(Split(text, <<"\n">>), LAMBDA lines :
    yaml_lines([ok |-> TRUE, fm |-> << >>], lines, 1).fm)

parse_goal_frontmatter(content) ==
  Bind(SplitMax(content, <<"-","-","-">>, 2), LAMBDA parts :
    IF StartsWith(content, <<"-","-","-">>) /\ Len(parts) >= 3
    THEN [frontmatter |-> yaml_safe_load(parts[2]), body |-> parts[3]]
    ELSE [frontmatter |-> << >>, body |-> content])

\* the content written to the goal file
write_goal_with_skills(frontmatter, body) ==
  Bind(Strip(yaml_dump(frontmatter)), LAMBDA fm_str :
    <<"-","-","-","\n">> \o fm_str \o <<"\n","-","-","-">> \o body)

(***************************************************************************)
(* Signal scorer.  Each signal returns its contribution and its reasons.   *)
(***************************************************************************)
Signal(points, reasons) == [score |-> points, reasons |-> reasons]
NoSignal == Signal(0, << >>)

Min(a, b) == IF a < b THEN a ELSE b

\* the keywords of the list found in the lower-cased text, in list order
keyword_hits(keywords, text_lower) ==
  SelectSeq(keywords, LAMBDA kw : Contains(text_lower, lower(kw)))

Mutant_keyword_signal_flat(keywords, goal_text) ==
  Bind(lower(goal_text), LAMBDA goal_lower :
    Bind(keyword_hits(keywords, goal_lower), LAMBDA hits :
      IF Len(hits) = 0 THEN NoSignal
      ELSE Signal(KeywordPoints,
                  << <<"k","e","y","w","o","r","d","s",":"," ">>
                     \o Join(SubSeq(hits, 1, Min(Len(hits), MaxReasonKeywords)),
                             <<","," ">>) >>)))

Mutant_keyword_signal_case(keywords, goal_text) ==
  Bind(keyword_hits(keywords, goal_text), LAMBDA hits :
    IF Len(hits) = 0 THEN NoSignal
    ELSE Signal(Len(hits) * KeywordPoints,
                << <<"k","e","y","w","o","r","d","s",":"," ">>
                   \o Join(SubSeq(hits, 1, Min(Len(hits), MaxReasonKeywords)),
                           <<","," ">>) >>))

Mutant_keyword_signal_all(keywords, goal_text) ==
  Bind(lower(goal_text), LAMBDA goal_lower :
    Bind(keyword_hits(keywords, goal_lower), LAMBDA hits :
      IF Len(hits) = 0 THEN NoSignal
      ELSE Signal(Len(hits) * KeywordPoints,
                  << <<"k","e","y","w","o","r","d","s",":"," ">> \o Join(hits, <<","," ">>) >>)))

keyword_signal(keywords, goal_text) ==
  Bind(lower(goal_text), LAMBDA goal_lower :
    Bind(keyword_hits(keywords, goal_lower), LAMBDA hits :
      IF Len(hits) = 0 THEN NoSignal
      ELSE Signal(Len(hits) * KeywordPoints,
                  << <<"k","e","y","w","o","r","d","s",":"," ">>
                     \o Join(SubSeq(hits, 1, Min(Len(hits), MaxReasonKeywords)),
                             <<","," ">>) >>)))

\* the patterns of the list that match the lower-cased goal name, in list order
pattern_hits(patterns, goal_name) ==
  Bind(lower(goal_name), LAMBDA name_lower :
    SelectSeq(patterns, LAMBDA p : re_search(p, name_lower)))

Mutant_goal_pattern_signal(patterns, goal_name) ==
  Bind(pattern_hits(patterns, goal_name), LAMBDA hits :
    Signal(Len(hits) * GoalPatternPoints,
           SubSeq([i \in 1..Len(hits) |-> <<"g","o","a","l"," ","p","a","t","t","e","r","n",":"," ">> \o hits[i]], 1, Len(hits))))

goal_pattern_signal(patterns, goal_name) ==
  Bind(pattern_hits(patterns, goal_name), LAMBDA hits :
    IF Len(hits) = 0 THEN NoSignal
    ELSE Signal(GoalPatternPoints, << <<"g","o","a","l"," ","p","a","t","t","e","r","n",":"," ">> \o hits[1] >>))

\* the file-type tokens of the list found in the serialized section, in list order
file_type_hits(file_types, sdp_section) ==
  Bind(lower(json_dumps(TheValue(sdp_section))), LAMBDA section_str :
    SelectSeq(file_types, LAMBDA ft : Contains(section_str, lower(ft))))

Mutant_file_type_signal(file_types, sdp_section) ==
  IF ~Truthy(sdp_section) THEN NoSignal
  ELSE Bind(file_type_hits(file_types, sdp_section), LAMBDA hits :
         Signal(Len(hits) * FileTypePoints,
                SubSeq([i \in 1..Len(hits) |-> <<"f","i","l","e"," ","t","y","p","e",":"," ">> \o hits[i]], 1, Len(hits))))

file_type_signal(file_types, sdp_section) ==
  IF ~Truthy(sdp_section) THEN NoSignal
  ELSE Bind(file_type_hits(file_types, sdp_section), LAMBDA hits :
         IF Len(hits) = 0 THEN NoSignal
         ELSE Signal(FileTypePoints, << <<"f","i","l","e"," ","t","y","p","e",":"," ">> \o hits[1] >>))

wildcard_signal(section_types, goal_name) ==
  IF (\E i \in 1..Len(section_types) : section_types[i] = <<"*">>)
     /\ StartsWith(goal_name, <<"b","u","i","l","d","-">>)
  THEN Signal(WildcardPoints, << <<"a","p","p","l","i","e","s"," ","t","o"," ","a","l","l"," ","b","u","i","l","d","-","*"," ","g","o","a","l","s">> >>)
  ELSE NoSignal

Mutant_density_signal(keywords, sdp_section) ==
  IF ~Truthy(sdp_section) THEN NoSignal
  ELSE Bind(lower(json_dumps(TheValue(sdp_section))), LAMBDA section_text :
         Bind(Len(keyword_hits(keywords, section_text)), LAMBDA section_keyword_hits :
           IF section_keyword_hits >= DensityMin
           THEN Signal(section_keyword_hits,
                       << IntToStr(section_keyword_hits)
                          \o <<" ","k","e","y","w","o","r","d"," ","h","i","t","s"," ","i","n"," ","S","D","P"," ","s","e","c","t","i","o","n">> >>)
           ELSE NoSignal))

density_signal(keywords, sdp_section) ==
  IF ~Truthy(sdp_section) THEN NoSignal
  ELSE Bind(lower(json_dumps(TheValue(sdp_section))), LAMBDA section_text :
         Bind(Len(keyword_hits(keywords, section_text)), LAMBDA section_keyword_hits :
           IF section_keyword_hits > DensityMin
           THEN Signal(section_keyword_hits,
                       << IntToStr(section_keyword_hits)
                          \o <<" ","k","e","y","w","o","r","d"," ","h","i","t","s"," ","i","n"," ","S","D","P"," ","s","e","c","t","i","o","n">> >>)
           ELSE NoSignal))

\* the five signals of one skill for one goal, in the order they are computed
signals(skill_def, goal_text, goal_name, sdp_section) ==
  LET triggers == Get(skill_def, "triggers", EmptyDict)
      keywords == Get(triggers, "keywords", << >>)
  IN  << keyword_signal(keywords, goal_text),
         goal_pattern_signal(Get(triggers, "goal_patterns", << >>), goal_name),
         file_type_signal(Get(triggers, "file_types", << >>), sdp_section),
         wildcard_signal(Get(triggers, "section_types", << >>), goal_name),
         density_signal(keywords, sdp_section) >>

score_skill(skill_name, skill_def, goal_text, goal_name, sdp_section) ==
  Bind(signals(skill_def, goal_text, goal_name, sdp_section), LAMBDA s :
    [score |-> s[1].score + s[2].score + s[3].score + s[4].score + s[5].score,
     reasons |-> s[1].reasons \o s[2].reasons \o s[3].reasons \o s[4].reasons
                 \o s[5].reasons])

(***************************************************************************)
(* Composite matcher.                                                      *)
(***************************************************************************)
Mutant_composite_applies(comp_def, goal_name, goal_text) ==
  LET triggers == Get(comp_def, "triggers", << >>)
  IN  \E name_lower \in {lower(goal_name)} :
        \E i \in 1..Len(triggers) : re_search(triggers[i], name_lower)

composite_applies(comp_def, goal_name, goal_text) ==
  LET triggers == Get(comp_def, "triggers", << >>)
  IN  \E name_lower \in {lower(goal_name)}, text_lower \in {lower(goal_text)} :
        \E i \in 1..Len(triggers) :
          \/ re_search(triggers[i], name_lower)
          \/ re_search(triggers[i], text_lower)

detect_composite_skills(goal_name, goal_text, composites) ==
  Bind(SelectSeq(composites,
                 LAMBDA c : composite_applies(c.def, goal_name, goal_text)),
       LAMBDA hits :
         SubSeq([i \in 1..Len(hits) |->
                   [name |-> hits[i].name,
                    skills |-> hits[i].def.skills,
                    description |-> Get(hits[i].def, "description", << >>)]],
                1, Len(hits)))

(***************************************************************************)
(* Assignment resolver.                                                    *)
(***************************************************************************)
Mutant_skill_path_of(skills_config, name) ==
  LET known == {i \in 1..Len(skills_config) : skills_config[i].name = name}
  IN  IF known = {} THEN Some(name)
      ELSE LET def == skills_config[CHOOSE i \in known : TRUE].def
           IN  IF "path" \in DOMAIN def THEN Some(def.path) ELSE None

\* skills_config[name].get("path"), or None for a name the registry lacks
skill_path_of(skills_config, name) ==
  LET known == {i \in 1..Len(skills_config) : skills_config[i].name = name}
  IN  IF known = {} THEN None
      ELSE LET def == skills_config[CHOOSE i \in known : TRUE].def
           IN  IF "path" \in DOMAIN def THEN Some(def.path) ELSE None

\* the (name, result) items with score > 0, in registry iteration order
score_all(skills_config, goal_text, goal_name, sdp_section) ==
  SelectSeq(SubSeq([i \in 1..Len(skills_config) |->
                      [name |-> skills_config[i].name,
                       result |-> score_skill(skills_config[i].name,
                                              skills_config[i].def,
                                              goal_text, goal_name, sdp_section)]],
                   1, Len(skills_config)),
            LAMBDA x : x.result.score > 0)

RemoveAt(s, i) == SubSeq(s, 1, i - 1) \o SubSeq(s, i + 1, Len(s))

Mutant_best_index(items) ==
  CHOOSE i \in 1..Len(items) :
    \A j \in 1..Len(items) :
      \/ items[i].result.score > items[j].result.score
      \/ (items[i].result.score = items[j].result.score /\ i >= j)

\* the first item with the highest score
best_index(items) ==
  CHOOSE i \in 1..Len(items) :
    \A j \in 1..Len(items) :
      \/ items[i].result.score > items[j].result.score
      \/ (items[i].result.score = items[j].result.score /\ i <= j)

\* sorted(items, key=score, reverse=True): stable, ties keep their order
RECURSIVE sorted_by_score(_)
sorted_by_score(items) ==
  Bind(items, LAMBDA v :
    IF Len(v) = 0 THEN << >>
    ELSE Bind(best_index(v), LAMBDA best :
           << v[best] >> \o sorted_by_score(RemoveAt(v, best))))

Mutant_qualifies(result) == result.score >= Threshold - 1

qualifies(result) == result.score >= Threshold

\* the entries for the threshold-qualified skills, best score first
primary_skills(skills_config, scores) ==
  Bind(SelectSeq(sorted_by_score(scores), LAMBDA x : qualifies(x.result)),
       LAMBDA kept :
         SubSeq([i \in 1..Len(kept) |->
                   LET skill_path == skill_path_of(skills_config, kept[i].name)
                   IN  [name |-> kept[i].name,
                        path |-> skill_path,
                        score |-> kept[i].result.score,
                        reasons |-> kept[i].result.reasons,
                        has_skill_file |-> ~IsNone(skill_path)]],
                1, Len(kept)))

Mutant_already_included(assigned_skills, comp_skill) == FALSE

already_included(assigned_skills, comp_skill) ==
  \E k \in 1..Len(assigned_skills) : assigned_skills[k].name = comp_skill

Mutant_composite_entry(skills_config, comp_name, comp_skill) ==
  LET skill_path == skill_path_of(skills_config, comp_skill)
  IN  [name |-> comp_skill,
       path |-> skill_path,
       score |-> CompositeScore,
       reasons |-> << <<"c","o","m","p","o","s","i","t","e",":"," ">> \o comp_skill >>,
       has_skill_file |-> ~IsNone(skill_path)]

composite_entry(skills_config, comp_name, comp_skill) ==
  LET skill_path == skill_path_of(skills_config, comp_skill)
  IN  [name |-> comp_skill,
       path |-> skill_path,
       score |-> CompositeScore,
       reasons |-> << <<"c","o","m","p","o","s","i","t","e",":"," ">> \o comp_name >>,
       has_skill_file |-> ~IsNone(skill_path)]

\* the members of one matched composite, from member i on
RECURSIVE add_members(_, _, _, _)
add_members(assigned_skills, skills_config, comp, i) ==
  IF i > Len(comp.skills) THEN assigned_skills
  ELSE Bind(IF already_included(assigned_skills, comp.skills[i]) THEN assigned_skills
            ELSE Append(assigned_skills,
                        composite_entry(skills_config, comp.name, comp.skills[i])),
            LAMBDA longer : add_members(longer, skills_config, comp, i + 1))

\* the members of the matched composites, from composite c on
RECURSIVE add_composites(_, _, _, _)
add_composites(assigned_skills, skills_config, composite_matches, c) ==
  IF c > Len(composite_matches) THEN assigned_skills
  ELSE Bind(add_members(assigned_skills, skills_config, composite_matches[c], 1),
            LAMBDA longer : add_composites(longer, skills_config, composite_matches,
                                           c + 1))

RECURSIVE SumScores(_, _)
SumScores(assigned_skills, i) ==
  IF i > Len(assigned_skills) THEN 0
  ELSE assigned_skills[i].score + SumScores(assigned_skills, i + 1)

\* frontmatter.get("title", default)
title_of(frontmatter, default) ==
  IF FmHas(frontmatter, <<"t","i","t","l","e">>) THEN FmGet(frontmatter, <<"t","i","t","l","e">>).items[1]
  ELSE default

\* f"{goal_name} {frontmatter.get('title', '')} {body}"
goal_text_of(goal_name, frontmatter, body) ==
  goal_name \o <<" ">> \o title_of(frontmatter, << >>) \o <<" ">> \o body

\* the section file is named after the goal name without "build-"
section_name_of(goal_name) == Replace(goal_name, <<"b","u","i","l","d","-">>, << >>)

Mutant_load_sdp_section(goal_name, sdp_sections_dir) ==
  IF IsNone(sdp_sections_dir) THEN None
  ELSE Bind(section_name_of(goal_name), LAMBDA section_name :
         IF section_name \in DOMAIN TheValue(sdp_sections_dir)
         THEN TheValue(sdp_sections_dir)[section_name]
         ELSE TheValue(sdp_sections_dir)[CHOOSE n \in DOMAIN TheValue(sdp_sections_dir) :
                                           TRUE])

\* sdp_sections_dir is None or Some(files); a file holds a parsed JSON
\* document, or None when json.load raises on it
load_sdp_section(goal_name, sdp_sections_dir) ==
  IF IsNone(sdp_sections_dir) THEN None
  ELSE Bind(section_name_of(goal_name), LAMBDA section_name :
         IF section_name \in DOMAIN TheValue(sdp_sections_dir)
         THEN TheValue(sdp_sections_dir)[section_name] ELSE None)

\* the assigned_skills list built from the scores and the matched composites
resolve(skills_config, scores, composite_matches) ==
  Bind(primary_skills(skills_config, scores), LAMBDA primary :
    add_composites(primary, skills_config, composite_matches, 1))

\* frontmatter with the skills, skill_paths and skills_assigned keys set
with_skills(frontmatter, assigned_skills, today) ==
  Bind(SelectSeq(assigned_skills,
                 LAMBDA s : ~IsNone(s.path) /\ Len(TheValue(s.path)) > 0),
       LAMBDA with_path :
         FmSet(FmSet(FmSet(frontmatter, <<"s","k","i","l","l","s">>,
                           List(SubSeq([i \in 1..Len(assigned_skills) |->
                                          assigned_skills[i].name],
                                       1, Len(assigned_skills)))),
                     <<"s","k","i","l","l","_","p","a","t","h","s">>,
                     List(SubSeq([i \in 1..Len(with_path) |->
                                    TheValue(with_path[i].path)],
                                 1, Len(with_path)))),
               <<"s","k","i","l","l","s","_","a","s","s","i","g","n","e","d">>, Scalar(today)))

\* the inputs of the scoring, read from the goal file and the section file
read_goal(goal_name, content, sdp_sections_dir) ==
  Bind(parse_goal_frontmatter(content), LAMBDA parsed :
    [frontmatter |-> parsed.frontmatter,
     body |-> parsed.body,
     goal_text |-> goal_text_of(goal_name, parsed.frontmatter, parsed.body),
     section_name |-> IF IsNone(sdp_sections_dir) THEN None
                      ELSE Some(section_name_of(goal_name)),
     sdp_section |-> load_sdp_section(goal_name, sdp_sections_dir)])

Mutant_should_write(dry_run, assigned_skills) == Len(assigned_skills) > 0

\* if not dry_run and assigned_skills
should_write(dry_run, assigned_skills) == ~dry_run /\ Len(assigned_skills) > 0

\* returns the result dict, whether the goal file is written and with what
\* content, and the call's local variables
assign_skills_to_goal(goal_name, content, reg, sdp_sections_dir, dry_run, today) ==
  Bind(read_goal(goal_name, content, sdp_sections_dir), LAMBDA inp :
    Bind(<< score_all(Get(reg, "skills", << >>), inp.goal_text, goal_name,
                      inp.sdp_section),
            detect_composite_skills(goal_name, inp.goal_text,
                                    Get(reg, "composites", << >>)) >>,
         LAMBDA found :
           Bind(resolve(Get(reg, "skills", << >>), found[1], found[2]),
                LAMBDA assigned_skills :
                  [result |->
                     [goal |-> goal_name,
                      title |-> title_of(inp.frontmatter, goal_name),
                      assigned_skills |-> assigned_skills,
                      composites |-> found[2],
                      total_score |-> SumScores(assigned_skills, 1)],
                   written |-> should_write(dry_run, assigned_skills),
                   content |->
                     IF should_write(dry_run, assigned_skills)
                     THEN write_goal_with_skills(
                            with_skills(inp.frontmatter, assigned_skills, today),
                            inp.body)
                     ELSE content,
                   locals |->
                     [goal_text |-> inp.goal_text,
                      section_name |-> inp.section_name,
                      sdp_section |-> inp.sdp_section,
                      scores |-> found[1]]])))

(***************************************************************************)
(* The SDP bridge (tools/sdp-bridge/sdp_to_context.py): the name of the    *)
(* goal file it generates for a section of the design package.             *)
(***************************************************************************)
WordChars ==
  {"a","b","c","d","e","f","g","h","i","j","k","l","m","n","o","p","q","r","s",
   "t","u","v","w","x","y","z","0","1","2","3","4","5","6","7","8","9","_"}
Whitespace == {" ", "\n", "\t"}

\* str.strip(chars)
StripChars(s, chars) ==
  Bind(s, LAMBDA v :
    Bind({i \in 1..Len(v) : v[i] \notin chars}, LAMBDA keep :
      IF keep = {} THEN << >>
      ELSE SubSeq(v, CHOOSE i \in keep : \A j \in keep : i <= j,
                     CHOOSE i \in keep : \A j \in keep : i >= j)))

\* re.sub(r'[\s_]+', '-', text): every run of whitespace and "_" becomes one "-"
collapse_separators(text) ==
  Bind(text, LAMBDA v :
    LET IsSep(i) == v[i] \in Whitespace \cup {"_"}
        heads == SelectSeq(SubSeq([i \in 1..Len(v) |-> i], 1, Len(v)),
                           LAMBDA i : ~(IsSep(i) /\ i > 1 /\ IsSep(i - 1)))
    IN  SubSeq([k \in 1..Len(heads) |-> IF IsSep(heads[k]) THEN "-" ELSE v[heads[k]]],
               1, Len(heads)))

kebab_case(text) ==
  Bind(SelectSeq(lower(text),
                 LAMBDA c : c \in WordChars \cup Whitespace \cup {"-"}),
       LAMBDA kept : StripChars(collapse_separators(kept), {"-"}))

\* the stem of the goal file generated from a section
goal_filename_of(section_name) == <<"b","u","i","l","d","-">> \o kebab_case(section_name)

(***************************************************************************)
(* sorted(goals_dir.glob("*.md")): file names compared character by        *)
(* character in code-point order.                                          *)
(***************************************************************************)
CodePointOrder ==
  << "-", ".", "0","1","2","3","4","5","6","7","8","9",
     "A","B","C","D","E","F","G","H","I","J","K","L","M",
     "N","O","P","Q","R","S","T","U","V","W","X","Y","Z", "_",
     "a","b","c","d","e","f","g","h","i","j","k","l","m",
     "n","o","p","q","r","s","t","u","v","w","x","y","z" >>
Ord(c) == CHOOSE i \in 1..Len(CodePointOrder) : CodePointOrder[i] = c

\* a < b for two strings
str_less(a, b) ==
  LET differ == {i \in 1..Min(Len(a), Len(b)) : a[i] # b[i]}
  IN  IF differ = {} THEN Len(a) < Len(b)
      ELSE LET i == CHOOSE i \in differ : \A j \in differ : i <= j
           IN  Ord(a[i]) < Ord(b[i])

\* the goal names of the set in the order of their file names
RECURSIVE sorted_goals(_)
sorted_goals(names) ==
  IF names = {} THEN << >>
  ELSE Bind(CHOOSE n \in names :
              \A m \in names \ {n} : str_less(n \o <<".","m","d">>, m \o <<".","m","d">>),
            LAMBDA first : << first >> \o sorted_goals(names \ {first}))

(***************************************************************************)
(* Aggregate reporter: the "Skill Usage Summary" table of                  *)
(* generate_skills_map.  The rest of the skills map document is not        *)
(* modelled.                                                               *)
(***************************************************************************)
\* the entries of all assignments, in the order the loops visit them
all_entries(assignments) ==
  Join([a \in 1..Len(assignments) |-> assignments[a].assigned_skills], << >>)

Mutant_count_skills(assignments) ==
  Bind(all_entries(assignments), LAMBDA entries :
    Bind(SelectSeq(SubSeq([k \in 1..Len(entries) |-> k], 1, Len(entries)),
                   LAMBDA k : \A j \in 1..(k - 1) : entries[j].name # entries[k].name),
         LAMBDA firsts :
           SubSeq([f \in 1..Len(firsts) |->
                     [name |-> entries[firsts[f]].name,
                      count |-> Cardinality({k \in 1..Len(assignments) :
                                  Len(assignments[k].assigned_skills) > 0})]],
                  1, Len(firsts))))

\* skill_counts: for each skill name, in first-seen order, the number of
\* entries with that name
count_skills(assignments) ==
  Bind(all_entries(assignments), LAMBDA entries :
    Bind(SelectSeq(SubSeq([k \in 1..Len(entries) |-> k], 1, Len(entries)),
                   LAMBDA k : \A j \in 1..(k - 1) : entries[j].name # entries[k].name),
         LAMBDA firsts :
           SubSeq([f \in 1..Len(firsts) |->
                     [name |-> entries[firsts[f]].name,
                      count |-> Cardinality({k \in 1..Len(entries) :
                                  entries[k].name = entries[firsts[f]].name})]],
                  1, Len(firsts))))

\* any(s["path"] for a in assignments for s in a["assigned_skills"] if ...)
has_file(assignments, skill_name) ==
  \E a \in 1..Len(assignments) :
    \E s \in 1..Len(assignments[a].assigned_skills) :
      /\ assignments[a].assigned_skills[s].name = skill_name
      /\ ~IsNone(assignments[a].assigned_skills[s].path)
      /\ Len(TheValue(assignments[a].assigned_skills[s].path)) > 0

\* the first item with the highest count
most_used(items) ==
  CHOOSE i \in 1..Len(items) :
    \A j \in 1..Len(items) :
      \/ items[i].count > items[j].count
      \/ (items[i].count = items[j].count /\ i <= j)

\* sorted(skill_counts.items(), key=count, reverse=True)
RECURSIVE sorted_by_count(_)
sorted_by_count(items) ==
  Bind(items, LAMBDA v :
    IF Len(v) = 0 THEN << >>
    ELSE Bind(most_used(v), LAMBDA best :
           << v[best] >> \o sorted_by_count(RemoveAt(v, best))))

\* the rows of the summary table: skill, used in # goals, has skill file
skill_usage_summary(assignments) ==
  Bind(sorted_by_count(count_skills(assignments)), LAMBDA counted :
    SubSeq([r \in 1..Len(counted) |->
              [skill |-> counted[r].name,
               count |-> counted[r].count,
               has_file |-> has_file(assignments, counted[r].name)]],
           1, Len(counted)))


Mutant_write_text(files, path, content) == [p \in DOMAIN files |-> content]

\* filepath.write_text(content)
write_text(files, path, content) == [files EXCEPT ![path] = content]

\* the goals main processes: the one named by --goal (as given, or with
\* "build-" put before it), or every goal file in sorted order
goals_to_process(goal_arg, files) ==
  IF IsNone(goal_arg) THEN sorted_goals(DOMAIN files)
  ELSE IF TheValue(goal_arg) \in DOMAIN files THEN << TheValue(goal_arg) >>
  ELSE IF (<<"b","u","i","l","d","-">> \o TheValue(goal_arg)) \in DOMAIN files
       THEN << <<"b","u","i","l","d","-">> \o TheValue(goal_arg) >>
  ELSE << >>

\* the loop of main over the goals from number i on: the goal files after it
\* and what each call returned
RECURSIVE process_goals(_, _, _, _, _, _, _)
process_goals(names, i, files, reg, dir, dry_run, today) ==
  IF i > Len(names) THEN [files |-> files, outs |-> << >>]
  ELSE Bind(assign_skills_to_goal(names[i], files[names[i]], reg, dir, dry_run, today),
            LAMBDA out :
              Bind(process_goals(names, i + 1,
                                 IF out.written
                                 THEN write_text(files, names[i], out.content)
                                 ELSE files,
                                 reg, dir, dry_run, today),
                   LAMBDA later :
                     [files |-> later.files, outs |-> << out >> \o later.outs]))

(***************************************************************************)
(* The inputs the model draws from: skill and composite definitions of a   *)
(* registry, goal files, section payloads and run dates.                   *)
(***************************************************************************)
SkillPool ==
  << [name |-> <<"f","r","o","n","t","e","n","d","-","d","e","s","i","g","n">>,
      def |-> [path |-> <<"f","d","/","S","K","I","L","L",".","m","d">>,
               triggers |-> [keywords |-> << <<"u","i">>, <<"c","o","m","p","o","n","e","n","t">>, <<"d","a","s","h","b","o","a","r","d">> >>,
                             goal_patterns |-> << <<"^","b","u","i","l","d","-",".","*","d","a","s","h","b","o","a","r","d">> >>,
                             section_types |-> << <<"*">> >>]]],
     [name |-> <<"a","p","i","-","d","e","s","i","g","n">>,
      def |-> [path |-> <<"a","p","i","/","S","K","I","L","L",".","m","d">>,
               triggers |-> [keywords |-> << <<"e","n","d","p","o","i","n","t">>, <<"r","e","s","t">>, <<"a","p","i">> >>]]],
     [name |-> <<"d","a","t","a","b","a","s","e","-","d","e","s","i","g","n">>,
      def |-> [triggers |-> [keywords |-> << <<"s","c","h","e","m","a">>, <<"t","a","b","l","e">>, <<"i","n","v","e","n","t","o","r","y">>,
                                             <<"s","t","o","c","k">>, <<"l","e","v","e","l","s">>, <<"c","r","u","d">> >>,
                             goal_patterns |-> << <<"i","n","v","e","n","t","o","r","y">>, <<"^","b","u","i","l","d","-",".","*","c","r","u","d">> >>,
                             file_types |-> << <<".","S","Q","L">>, <<"p","r","i","s","m","a">>, <<"{","}">> >>]]],
     [name |-> <<"q","a","-","-","-","t","e","s","t","i","n","g">>,
      def |-> [path |-> <<"q","a","/","S","K","I","L","L",".","m","d">>,
               triggers |-> [keywords |-> << <<"t","e","s","t","i","n","g">> >>,
                             section_types |-> << <<"*">> >>]]],
     [name |-> <<"g","e","n","e","r","a","l">>,
      def |-> [path |-> <<"g","e","n","e","r","a","l","/","S","K","I","L","L",".","m","d">>]] >>

CompositePool ==
  << [name |-> <<"f","u","l","l","-","s","t","a","c","k","-","f","e","a","t","u","r","e">>,
      def |-> [skills |-> << <<"f","r","o","n","t","e","n","d","-","d","e","s","i","g","n">>, <<"a","p","i","-","d","e","s","i","g","n">>, <<"d","a","t","a","b","a","s","e","-","d","e","s","i","g","n">> >>,
               triggers |-> << <<"c","r","u","d">> >>,
               description |-> <<"U","I",","," ","A","P","I"," ","a","n","d"," ","d","a","t","a">>]],
     [name |-> <<"d","a","t","a","-","l","a","y","e","r">>,
      def |-> [skills |-> << <<"d","a","t","a","b","a","s","e","-","d","e","s","i","g","n">>, <<"o","r","m">>, <<"d","a","t","a","b","a","s","e","-","d","e","s","i","g","n">> >>,
               triggers |-> << <<"i","n","v","e","n","t","o","r","y">>, <<"d","a","s","h","b","o","a","r","d">>, <<"s","t","o","c","k"," ","l","e","v","e","l","s">> >>]],
     [name |-> <<"c","o","n","t","e","n","t","-","p","a","g","e","s">>,
      def |-> [skills |-> << <<"p","a","g","e","-","l","a","y","o","u","t">>, <<"f","r","o","n","t","e","n","d","-","d","e","s","i","g","n">> >>,
               triggers |-> << <<"^","s","i","m","p","l","e">>, <<"p","r","o","f","i","l","e"," ","p","a","g","e">> >>]],
     [name |-> <<"e","v","e","r","y","t","h","i","n","g">>,
      def |-> [skills |-> << <<"g","e","n","e","r","a","l">> >>]],
     [name |-> <<"p","l","a","c","e","h","o","l","d","e","r">>,
      def |-> [skills |-> << <<"g","e","n","e","r","a","l">> >>, triggers |-> << >>]] >>

\* a goal file the SDP bridge generated for a section of the design package
generated(section, content) ==
  [name |-> goal_filename_of(section), section |-> Some(section), content |-> content]

\* a goal file written by hand
handwritten(name, content) == [name |-> name, section |-> None, content |-> content]

GoalPool ==
  << generated(<<"d","a","s","h","b","o","a","r","d">>, <<"-","-","-","\n","t","i","t","l","e",":"," ","B","u","i","l","d"," ","D","a","s","h","b","o","a","r","d","\n","-","-","-">>),
     generated(<<"u","s","e","r","-","p","r","o","f","i","l","e">>, <<"S","i","m","p","l","e"," ","p","r","o","f","i","l","e"," ","p","a","g","e",","," ","n","o"," ","A","P","I"," ","c","a","l","l","s",".">>),
     generated(<<"i","n","v","e","n","t","o","r","y","-","c","r","u","d">>,
               <<"-","-","-","\n","t","i","t","l","e",":"," ","I","n","v","e","n","t","o","r","y","\n","-","-","-","\n","S","t","o","c","k"," ","l","e","v","e","l","s",","," ","t","a","b","l","e"," ","s","c","h","e","m","a",".","\n">>),
     handwritten(<<"s","e","t","u","p","-","c","i">>, <<"-","-","-","\n","t","i","t","l","e",":"," ","S","e","t","u","p"," ","C","I","\n","-","-","-","\n","P","i","p","e","l","i","n","e",".","\n">>),
     generated(<<"r","e","-","b","u","i","l","d","-","c","a","c","h","e">>, <<"-","-","-","\n","t","i","t","l","e",":"," ","C","a","c","h","e","\n","-","-","-","\n","R","e","b","u","i","l","d",".","\n">>) >>

\* the goals of a project, as indices into GoalPool
GoalSets == << << 1 >>, << 2 >>, << 3 >>, << 4 >>, << 5 >>, << 3, 1 >> >>

\* a section file: absent, present with text json.load raises on (or with
\* null), or present with a JSON document
PayloadPool ==
  << [exists |-> FALSE],
     [exists |-> TRUE, json |-> None],
     [exists |-> TRUE, json |-> Some([t |-> "object", v |-> << >>])],
     [exists |-> TRUE,
      json |-> Some([t |-> "object",
                     v |-> << << <<"n","a","m","e">>, [t |-> "string", v |-> <<"I","n","v","e","n","t","o","r","y">>] >>,
                              << <<"f","i","l","e","s">>,
                                 [t |-> "array",
                                  v |-> << [t |-> "string", v |-> <<"s","c","h","e","m","a",".","s","q","l">>],
                                           [t |-> "string", v |-> <<"s","c","h","e","m","a",".","p","r","i","s","m","a">>] >>] >>,
                              << <<"n","o","t","e","s">>,
                                 [t |-> "string",
                                  v |-> <<"T","a","b","l","e"," ","p","e","r"," ","R","E","S","T"," ","a","p","i"," ","e","n","d","p","o","i","n","t",","," ","U","I"," ","c","o","m","p","o","n","e","n","t">>] >>
                           >>])] >>

Dates == << <<"2","0","2","6","-","1","1","-","0","4">> >>

\* the composite sections the model draws from, as indices into CompositePool;
\* the empty one stands for a registry without a composites section
CompositeOrders == << << >>, << 4, 3 >>, << 2, 5, 1 >> >>

\* the injective sequences of indices 1..n of length at most max
RECURSIVE Orders(_, _)
Orders(n, max) ==
  IF max = 0 THEN { << >> }
  ELSE LET shorter == Orders(n, max - 1)
       IN  shorter \cup {Append(s, i) : s \in {t \in shorter : Len(t) = max - 1},
                                         i \in 1..n}
Injective(s) == \A i, j \in 1..Len(s) : i # j => s[i] # s[j]
Selections(n, max) == {s \in Orders(n, max) : Injective(s)}
\* the selections that take neighbours of the pool (the last is next to the
\* first), forwards or backwards
Neighbours(s, n) ==
  \A i \in 1..(Len(s) - 1) : (s[i + 1] - s[i]) % n \in {1, n - 1}
Registries == {s \in Selections(Len(SkillPool), MaxSkills) : Neighbours(s, Len(SkillPool))}

(***************************************************************************)
(* State: the loaded registry, the goal files and section files of the     *)
(* project, for each goal the result returned by the latest call and the   *)
(* local variables of that call, the summary table of the skills map file  *)
(* (None until written), and the goals and mode of the latest run.         *)
(***************************************************************************)
VARIABLES registry, goal_files, sdp_files, results, locals, skills_map, last_run

vars == << registry, goal_files, sdp_files, results, locals, skills_map, last_run >>

Init ==
  \E ss \in Registries,
     c \in 1..Len(CompositeOrders),
     gs \in 1..Len(GoalSets),
     p \in 1..Len(PayloadPool) :
    \* a project of several goals is drawn with the last payload only
    /\ Len(GoalSets[gs]) > 1 =>
         (CompositeOrders[c] \in {<< >>, << 2, 5, 1 >>} /\ p = Len(PayloadPool))
    /\ LET skills == [i \in 1..Len(ss) |-> SkillPool[ss[i]]]
           goals == {GoalPool[GoalSets[gs][k]] : k \in 1..Len(GoalSets[gs])}
           first == GoalPool[GoalSets[gs][1]]
       IN  /\ registry = IF Len(CompositeOrders[c]) = 0 THEN [skills |-> skills]
                         ELSE [skills |-> skills,
                               composites |-> [i \in 1..Len(CompositeOrders[c]) |->
                                                 CompositePool[CompositeOrders[c][i]]]]
           /\ goal_files = [n \in {g.name : g \in goals} |->
                              (CHOOSE g \in goals : g.name = n).content]
           /\ sdp_files = IF PayloadPool[p].exists /\ ~IsNone(first.section)
                          THEN [n \in {TheValue(first.section)} |-> PayloadPool[p].json]
                          ELSE EmptyDict
           /\ results = [n \in {g.name : g \in goals} |-> None]
           /\ locals = [n \in {g.name : g \in goals} |-> None]
           /\ skills_map = None
           /\ last_run = None

\* main hands over no sections directory when it holds no JSON file
sdp_sections_dir == IF DOMAIN sdp_files = {} THEN None ELSE Some(sdp_files)

\* one run of main: every selected goal is processed, then the skills map is
\* written unless the run is a dry run; runs are made while the goal files
\* are no longer than MaxFileLen
Run(goal_arg, dry_run, today) ==
  /\ \A g \in DOMAIN goal_files : Len(goal_files[g]) <= MaxFileLen
  /\ \E names \in {goals_to_process(goal_arg, goal_files)} :
       \E done \in {process_goals(names, 1, goal_files, registry, sdp_sections_dir,
                                  dry_run, today)} :
         /\ Len(names) > 0
         /\ goal_files' = done.files
         /\ results' = [g \in DOMAIN results |->
                          IF \E k \in 1..Len(names) : names[k] = g
                          THEN Some(done.outs[CHOOSE k \in 1..Len(names) :
                                                names[k] = g].result)
                          ELSE results[g]]
         /\ locals' = [g \in DOMAIN locals |->
                         IF \E k \in 1..Len(names) : names[k] = g
                         THEN Some(done.outs[CHOOSE k \in 1..Len(names) :
                                               names[k] = g].locals)
                         ELSE locals[g]]
         /\ skills_map' = IF dry_run THEN skills_map
                          ELSE Some(skill_usage_summary(
                                      SubSeq([k \in 1..Len(names) |-> done.outs[k].result],
                                             1, Len(names))))
         /\ last_run' = Some([goals |-> names, dry_run |-> dry_run])
  /\ UNCHANGED << registry, sdp_files >>

\* the values of --goal: absent, or the name of a goal file (in a project
\* with a single goal file both select that goal, so one stands for both)
GoalArgs ==
  IF Cardinality(DOMAIN goal_files) = 1 THEN {None}
  ELSE {None} \cup {Some(g) : g \in DOMAIN goal_files}

DryRun == \E goal_arg \in GoalArgs : Run(goal_arg, TRUE, Dates[1])

WriteRun ==
  \E goal_arg \in GoalArgs, d \in 1..Len(Dates) : Run(goal_arg, FALSE, Dates[d])

\* the SDP bridge imports a design package without sections: the stored
\* package, and with it every section file, is replaced
ReimportWithoutSections ==
  /\ ~IsNone(last_run)
  /\ DOMAIN sdp_files # {}
  /\ sdp_files' = EmptyDict
  /\ UNCHANGED << registry, goal_files, results, locals, skills_map, last_run >>

Next == DryRun \/ WriteRun \/ ReimportWithoutSections

Spec == Init /\ [][Next]_vars

(***************************************************************************)
(* Vocabulary of the properties: the latest call for a goal, what it       *)
(* returned and what it computed on the way.                               *)
(***************************************************************************)
HasRun(g) == ~IsNone(results[g])
Assigned(g) == TheValue(results[g]).assigned_skills
Matched(g) == TheValue(results[g]).composites
SkillsConfig == Get(registry, "skills", << >>)

\* the result score_skill gave skill number i of the registry in the latest
\* call for g, as kept in the call's scores (a skill with score 0 is not kept)
Scored(g, i) ==
  LET scores == TheValue(locals[g]).scores
      at == {k \in 1..Len(scores) : scores[k].name = SkillsConfig[i].name}
  IN  IF at = {} THEN [score |-> 0, reasons |-> << >>]
      ELSE scores[CHOOSE k \in at : TRUE].result

\* score_skill applied again to the inputs of the latest call for g
Rescored(g, i) ==
  score_skill(SkillsConfig[i].name, SkillsConfig[i].def,
              TheValue(locals[g]).goal_text, g, TheValue(locals[g]).sdp_section)

InRegistry(name) == \E i \in 1..Len(SkillsConfig) : SkillsConfig[i].name = name
IndexOf(name) == CHOOSE i \in 1..Len(SkillsConfig) : SkillsConfig[i].name = name
IsAssigned(g, name) == \E e \in 1..Len(Assigned(g)) : Assigned(g)[e].name = name
EntryOf(g, name) ==
  Assigned(g)[CHOOSE e \in 1..Len(Assigned(g)) : Assigned(g)[e].name = name]
HasMember(comp, name) == \E m \in 1..Len(comp.skills) : comp.skills[m] = name
IsMember(g, name) == \E c \in 1..Len(Matched(g)) : HasMember(Matched(g)[c], name)
\* a skill of the registry whose score in the latest call reached 2
Qualified(g, name) == InRegistry(name) /\ Scored(g, IndexOf(name)).score >= 2
\* the member names of the matched composites, in the order they are met
Encounter(g) ==
  Join([c \in 1..Len(Matched(g)) |-> Matched(g)[c].skills], << >>)
FirstAt(seq, x) ==
  CHOOSE k \in 1..Len(seq) : seq[k] = x /\ \A j \in 1..(k - 1) : seq[j] # x
\* the number of reasons that begin with the given label
CountReasons(reasons, label) ==
  Cardinality({k \in 1..Len(reasons) : StartsWith(reasons[k], label)})
TriggersOf(i) == Get(SkillsConfig[i].def, "triggers", EmptyDict)

(***************************************************************************)
(* C1: in every assignment returned by assign_skills_to_goal each skill    *)
(* name occurs at most once, whether it was scored directly, added from a  *)
(* composite, shared by several matched composites, or repeated in a       *)
(* composite's member list.                                                *)
(***************************************************************************)
C1_NoDuplicateNames ==
  \A g \in DOMAIN results :
    HasRun(g) =>
      \A a, b \in 1..Len(Assigned(g)) :
        a # b => Assigned(g)[a].name # Assigned(g)[b].name

\* an assignment made with two matched composites that share a member which
\* one of them lists twice and which was also scored directly
C1_Witness ==
  \E g \in DOMAIN results :
    /\ HasRun(g)
    /\ \E c, d \in 1..Len(Matched(g)) :
         /\ c # d
         /\ \E m, n \in 1..Len(Matched(g)[c].skills) :
              /\ m # n
              /\ Matched(g)[c].skills[m] = Matched(g)[c].skills[n]
              /\ HasMember(Matched(g)[d], Matched(g)[c].skills[m])
              /\ Qualified(g, Matched(g)[c].skills[m])

(***************************************************************************)
(* C2: every score is >= 0; every entry of an assignment is a registry     *)
(* skill whose score is >= 2, carried with that score, or a member of a    *)
(* matched composite carried with score 1; a registry skill with score 0   *)
(* or 1 that no matched composite lists is not in the assignment.          *)
(***************************************************************************)
C2_ThresholdOrComposite ==
  \A g \in DOMAIN results :
    HasRun(g) =>
      \E rescored \in {[i \in 1..Len(SkillsConfig) |-> Rescored(g, i).score]} :
        /\ \A i \in 1..Len(SkillsConfig) : rescored[i] >= 0
        /\ \A e \in 1..Len(Assigned(g)) :
             \/ /\ InRegistry(Assigned(g)[e].name)
                /\ rescored[IndexOf(Assigned(g)[e].name)] >= 2
                /\ Assigned(g)[e].score = rescored[IndexOf(Assigned(g)[e].name)]
             \/ /\ IsMember(g, Assigned(g)[e].name)
                /\ Assigned(g)[e].score = 1
        /\ \A i \in 1..Len(SkillsConfig) :
             (rescored[i] < 2 /\ ~IsMember(g, SkillsConfig[i].name))
               => ~IsAssigned(g, SkillsConfig[i].name)

\* an assignment with a threshold-qualified entry and a composite entry, made
\* while a registry skill scored exactly 1 and was left out
C2_Witness ==
  \E g \in DOMAIN results :
    /\ HasRun(g)
    /\ \E e \in 1..Len(Assigned(g)) : Assigned(g)[e].score >= 2
    /\ \E e \in 1..Len(Assigned(g)) :
         Assigned(g)[e].score = 1 /\ IsMember(g, Assigned(g)[e].name)
    /\ \E i \in 1..Len(SkillsConfig) :
         Scored(g, i).score = 1 /\ ~IsAssigned(g, SkillsConfig[i].name)

(***************************************************************************)
(* C3: in every assignment the threshold-qualified skills come before the  *)
(* composite-only additions; the former are in descending score order with *)
(* equal scores in registry order, the latter in the order their names are *)
(* first met in the matched composites' member lists.                      *)
(***************************************************************************)
C3_Ordering ==
  \A g \in DOMAIN results :
    HasRun(g) =>
      /\ \A i \in 1..Len(SkillsConfig) :
           Scored(g, i).score >= 2 => IsAssigned(g, SkillsConfig[i].name)
      /\ \A a, b \in 1..Len(Assigned(g)) :
           a < b =>
             LET x == Assigned(g)[a]
                 y == Assigned(g)[b]
             IN  /\ Qualified(g, y.name) => Qualified(g, x.name)
                 /\ (Qualified(g, x.name) /\ Qualified(g, y.name)) =>
                      \/ x.score > y.score
                      \/ x.score = y.score /\ IndexOf(x.name) < IndexOf(y.name)
                 /\ (~Qualified(g, x.name) /\ ~Qualified(g, y.name)) =>
                      FirstAt(Encounter(g), x.name) < FirstAt(Encounter(g), y.name)

\* an assignment with two threshold-qualified skills of equal score followed
\* by a composite-only addition
C3_Witness ==
  \E g \in DOMAIN results :
    /\ HasRun(g)
    /\ \E a, b, c \in 1..Len(Assigned(g)) :
         /\ a < b /\ b < c
         /\ Qualified(g, Assigned(g)[a].name)
         /\ Qualified(g, Assigned(g)[b].name)
         /\ Assigned(g)[a].score = Assigned(g)[b].score
         /\ ~Qualified(g, Assigned(g)[c].name)

(***************************************************************************)
(* C4: a later call for a goal, with the registry and the section files    *)
(* unchanged, returns the same assignment as the call before it, also when *)
(* the earlier call wrote the skills into the goal's frontmatter.          *)
(***************************************************************************)
C4_SameAssignmentAgain ==
  [][\A g \in DOMAIN results :
       (HasRun(g) /\ registry' = registry /\ sdp_files' = sdp_files)
         => TheValue(results'[g]).assigned_skills = Assigned(g)]_vars

(***************************************************************************)
(* C5: frontend-design on the goal build-dashboard, title "Build           *)
(* Dashboard", empty body, no section payload.                             *)
(***************************************************************************)
C5_Case(g) ==
  /\ g = <<"b","u","i","l","d","-","d","a","s","h","b","o","a","r","d">>
  /\ HasRun(g)
  /\ TheValue(locals[g]).goal_text = <<"b","u","i","l","d","-","d","a","s","h","b","o","a","r","d"," ","B","u","i","l","d"," ","D","a","s","h","b","o","a","r","d"," ">>
  /\ IsNone(TheValue(locals[g]).sdp_section)
  /\ InRegistry(<<"f","r","o","n","t","e","n","d","-","d","e","s","i","g","n">>)

\* C5 as stated: score_skill returns 6 with three reasons and the skill is
\* included
C5_AsStated ==
  \A g \in DOMAIN results :
    C5_Case(g) =>
      /\ Scored(g, IndexOf(<<"f","r","o","n","t","e","n","d","-","d","e","s","i","g","n">>)).score = 6
      /\ Len(Scored(g, IndexOf(<<"f","r","o","n","t","e","n","d","-","d","e","s","i","g","n">>)).reasons) = 3
      /\ IsAssigned(g, <<"f","r","o","n","t","e","n","d","-","d","e","s","i","g","n">>)

\* C5 amended: score_skill returns 7 (keywords "ui", inside "build", and
\* "dashboard": +2; goal pattern +3; wildcard +2) with exactly three reasons,
\* and the skill is included with that score
C5_ScoreSeven ==
  \A g \in DOMAIN results :
    C5_Case(g) =>
      /\ Scored(g, IndexOf(<<"f","r","o","n","t","e","n","d","-","d","e","s","i","g","n">>)) =
           [score |-> 7,
            reasons |-> << <<"k","e","y","w","o","r","d","s",":"," ","u","i",","," ","d","a","s","h","b","o","a","r","d">>,
                           <<"g","o","a","l"," ","p","a","t","t","e","r","n",":"," ","^","b","u","i","l","d","-",".","*","d","a","s","h","b","o","a","r","d">>,
                           <<"a","p","p","l","i","e","s"," ","t","o"," ","a","l","l"," ","b","u","i","l","d","-","*"," ","g","o","a","l","s">> >>]
      /\ IsAssigned(g, <<"f","r","o","n","t","e","n","d","-","d","e","s","i","g","n">>)
      /\ EntryOf(g, <<"f","r","o","n","t","e","n","d","-","d","e","s","i","g","n">>).score = 7

C5_Witness == \E g \in DOMAIN results : C5_Case(g)

(***************************************************************************)
(* C6: api-design on the goal build-user-profile, no title, body "Simple   *)
(* profile page, no API calls.", no section payload.                       *)
(***************************************************************************)
C6_Case(g) ==
  /\ g = <<"b","u","i","l","d","-","u","s","e","r","-","p","r","o","f","i","l","e">>
  /\ HasRun(g)
  /\ TheValue(locals[g]).goal_text
       = <<"b","u","i","l","d","-","u","s","e","r","-","p","r","o","f","i","l","e"," "," ","S","i","m","p","l","e"," ","p","r","o","f","i","l","e"," ","p","a","g","e",","," ","n","o"," ","A","P","I"," ","c","a","l","l","s",".">>
  /\ IsNone(TheValue(locals[g]).sdp_section)
  /\ InRegistry(<<"a","p","i","-","d","e","s","i","g","n">>)

\* C6 as stated: score_skill returns 0 and the skill is excluded
C6_AsStated ==
  \A g \in DOMAIN results :
    C6_Case(g) =>
      /\ Scored(g, IndexOf(<<"a","p","i","-","d","e","s","i","g","n">>)).score = 0
      /\ ~IsAssigned(g, <<"a","p","i","-","d","e","s","i","g","n">>)

\* C6 amended: score_skill returns 1 (the keyword "api" is found in "API"),
\* which is below the threshold, so the skill is excluded unless a matched
\* composite lists it
C6_ScoreOne ==
  \A g \in DOMAIN results :
    C6_Case(g) =>
      /\ Scored(g, IndexOf(<<"a","p","i","-","d","e","s","i","g","n">>)) =
           [score |-> 1, reasons |-> << <<"k","e","y","w","o","r","d","s",":"," ","a","p","i">> >>]
      /\ ~IsMember(g, <<"a","p","i","-","d","e","s","i","g","n">>) => ~IsAssigned(g, <<"a","p","i","-","d","e","s","i","g","n">>)

C6_Witness ==
  \E g \in DOMAIN results :
    C6_Case(g) /\ ~IsMember(g, <<"a","p","i","-","d","e","s","i","g","n">>) /\ Len(Assigned(g)) > 0

(***************************************************************************)
(* C7: every member of every matched composite is in the assignment: with  *)
(* its computed score and reasons when it is a threshold-qualified skill,  *)
(* otherwise with score 1 and the single reason "composite: <name>" naming *)
(* the first matched composite that lists it.                              *)
(***************************************************************************)
C7_CompositeMembers ==
  \A g \in DOMAIN results :
    HasRun(g) =>
      \A k \in 1..Len(Encounter(g)) :
        LET name == Encounter(g)[k]
            first == Matched(g)[CHOOSE c \in 1..Len(Matched(g)) :
                                  /\ HasMember(Matched(g)[c], name)
                                  /\ \A d \in 1..(c - 1) : ~HasMember(Matched(g)[d], name)]
        IN  /\ IsAssigned(g, name)
            /\ IF Qualified(g, name)
               THEN /\ EntryOf(g, name).score = Scored(g, IndexOf(name)).score
                    /\ EntryOf(g, name).reasons = Scored(g, IndexOf(name)).reasons
               ELSE /\ EntryOf(g, name).score = 1
                    /\ EntryOf(g, name).reasons = << <<"c","o","m","p","o","s","i","t","e",":"," ">> \o first.name >>

\* the goal build-inventory-crud with full-stack-feature matched after another
\* composite: one member is a threshold-qualified skill, one is appended, and
\* one appended member is listed by both matched composites
C7_Witness ==
  \E g \in DOMAIN results :
    /\ g = <<"b","u","i","l","d","-","i","n","v","e","n","t","o","r","y","-","c","r","u","d">>
    /\ HasRun(g)
    /\ Len(Matched(g)) = 2
    /\ Matched(g)[2].name = <<"f","u","l","l","-","s","t","a","c","k","-","f","e","a","t","u","r","e">>
    /\ \E m \in 1..Len(Matched(g)[2].skills) : Qualified(g, Matched(g)[2].skills[m])
    /\ \E m \in 1..Len(Matched(g)[2].skills) :
         /\ ~Qualified(g, Matched(g)[2].skills[m])
         /\ HasMember(Matched(g)[1], Matched(g)[2].skills[m])
    /\ \E m \in 1..Len(Matched(g)[2].skills) :
         /\ ~Qualified(g, Matched(g)[2].skills[m])
         /\ ~HasMember(Matched(g)[1], Matched(g)[2].skills[m])

(***************************************************************************)
(* C8: the goal-pattern signal adds exactly 3 points and one reason to a   *)
(* skill's score when at least one of its goal patterns matches the        *)
(* lower-cased goal name, and nothing otherwise, however many match.       *)
(***************************************************************************)
PatternsMatching(g, i) ==
  LET patterns == Get(TriggersOf(i), "goal_patterns", << >>)
  IN  Cardinality({p \in 1..Len(patterns) : re_search(patterns[p], lower(g))})

\* what the signals other than the goal-pattern signal add for skill i
C8_OtherSignals(g, i) ==
  LET keywords == Get(TriggersOf(i), "keywords", << >>)
      inp == TheValue(locals[g])
  IN  keyword_signal(keywords, inp.goal_text).score
      + file_type_signal(Get(TriggersOf(i), "file_types", << >>), inp.sdp_section).score
      + wildcard_signal(Get(TriggersOf(i), "section_types", << >>), g).score
      + density_signal(keywords, inp.sdp_section).score

C8_GoalPatternSignal ==
  \A g \in DOMAIN results :
    HasRun(g) =>
      \A i \in 1..Len(SkillsConfig) :
        /\ Scored(g, i).score - C8_OtherSignals(g, i)
             = IF PatternsMatching(g, i) >= 1 THEN 3 ELSE 0
        /\ CountReasons(Scored(g, i).reasons, <<"g","o","a","l"," ","p","a","t","t","e","r","n",":"," ">>)
             = IF PatternsMatching(g, i) >= 1 THEN 1 ELSE 0

\* a skill scored for a goal whose name two of its patterns match
C8_Witness ==
  \E g \in DOMAIN results :
    HasRun(g) /\ \E i \in 1..Len(SkillsConfig) : PatternsMatching(g, i) >= 2

(***************************************************************************)
(* C9: the file-type signal adds at most 2 points and at most one reason   *)
(* to a skill's score, however many of its file-type tokens occur in the   *)
(* serialized section payload.                                             *)
(***************************************************************************)
TokensFound(g, i) ==
  LET file_types == Get(TriggersOf(i), "file_types", << >>)
      sdp_section == TheValue(locals[g]).sdp_section
  IN  IF IsNone(sdp_section) THEN 0
      ELSE Cardinality({t \in 1..Len(file_types) :
                          Contains(lower(json_dumps(TheValue(sdp_section))),
                                   lower(file_types[t]))})

\* what the signals other than the file-type signal add for skill i
C9_OtherSignals(g, i) ==
  LET keywords == Get(TriggersOf(i), "keywords", << >>)
      inp == TheValue(locals[g])
  IN  keyword_signal(keywords, inp.goal_text).score
      + goal_pattern_signal(Get(TriggersOf(i), "goal_patterns", << >>), g).score
      + wildcard_signal(Get(TriggersOf(i), "section_types", << >>), g).score
      + density_signal(keywords, inp.sdp_section).score

C9_FileTypeSignal ==
  \A g \in DOMAIN results :
    HasRun(g) =>
      \A i \in 1..Len(SkillsConfig) :
        /\ Scored(g, i).score - C9_OtherSignals(g, i) <= 2
        /\ CountReasons(Scored(g, i).reasons, <<"f","i","l","e"," ","t","y","p","e",":"," ">>) <= 1

\* a skill scored with two of its file-type tokens in the section payload
C9_Witness ==
  \E g \in DOMAIN results :
    /\ HasRun(g)
    /\ \E i \in 1..Len(SkillsConfig) :
         /\ TokensFound(g, i) >= 2
         /\ Scored(g, i).score - C9_OtherSignals(g, i) = 2

(***************************************************************************)
(* C10: a composite member the registry does not know is in the assignment *)
(* with score 1, no path and has_skill_file false; every entry carries the *)
(* registry's path for its skill, or none when the registry gives none.    *)
(***************************************************************************)
RegistryPath(name) ==
  IF InRegistry(name) /\ "path" \in DOMAIN SkillsConfig[IndexOf(name)].def
  THEN Some(SkillsConfig[IndexOf(name)].def.path)
  ELSE None

C10_PathsAndUnknownMembers ==
  \A g \in DOMAIN results :
    HasRun(g) =>
      /\ \A e \in 1..Len(Assigned(g)) :
           /\ Assigned(g)[e].path = RegistryPath(Assigned(g)[e].name)
           /\ Assigned(g)[e].has_skill_file = ~IsNone(RegistryPath(Assigned(g)[e].name))
      /\ \A k \in 1..Len(Encounter(g)) :
           ~InRegistry(Encounter(g)[k]) =>
             /\ IsAssigned(g, Encounter(g)[k])
             /\ EntryOf(g, Encounter(g)[k]).score = 1
             /\ IsNone(EntryOf(g, Encounter(g)[k]).path)
             /\ ~EntryOf(g, Encounter(g)[k]).has_skill_file

\* an assignment with a member unknown to the registry, an entry with a path
\* and an entry of a registry skill that has no path
C10_Witness ==
  \E g \in DOMAIN results :
    /\ HasRun(g)
    /\ \E k \in 1..Len(Encounter(g)) : ~InRegistry(Encounter(g)[k])
    /\ \E e \in 1..Len(Assigned(g)) : ~IsNone(Assigned(g)[e].path)
    /\ \E e \in 1..Len(Assigned(g)) :
         InRegistry(Assigned(g)[e].name) /\ IsNone(Assigned(g)[e].path)

(***************************************************************************)
(* C11: missing optional data contributes nothing.  A goal whose section   *)
(* file is missing or cannot be parsed is scored without a payload (the    *)
(* file-type and density signals add 0 and no reason); a skill without     *)
(* triggers, or without one of the trigger categories, is scored as if     *)
(* the category were empty; a registry without a composites section        *)
(* matches no composite.                                                   *)
(***************************************************************************)
\* the latest call for g found no sections directory, or found in it no file
\* for the section or a file json.load raises on (the section files are the
\* ones of the call while there are any)
PayloadMissing(g) ==
  LET section_name == TheValue(locals[g]).section_name
  IN  \/ IsNone(section_name)
      \/ /\ DOMAIN sdp_files # {}
         /\ \/ TheValue(section_name) \notin DOMAIN sdp_files
            \/ IsNone(sdp_files[TheValue(section_name)])

IsDensityReason(r) == Contains(r, <<" ","k","e","y","w","o","r","d"," ","h","i","t","s"," ","i","n"," ","S","D","P"," ","s","e","c","t","i","o","n">>)

\* the skill definition with every trigger category written out
WithAllCategories(skill_def) ==
  LET triggers == Get(skill_def, "triggers", EmptyDict)
  IN  [triggers |-> [keywords |-> Get(triggers, "keywords", << >>),
                     goal_patterns |-> Get(triggers, "goal_patterns", << >>),
                     file_types |-> Get(triggers, "file_types", << >>),
                     section_types |-> Get(triggers, "section_types", << >>)]]

LacksCategory(skill_def) ==
  \/ "triggers" \notin DOMAIN skill_def
  \/ \E cat \in {"keywords", "goal_patterns", "file_types", "section_types"} :
       cat \notin DOMAIN skill_def.triggers

Reverse(s) == [i \in 1..Len(s) |-> s[Len(s) + 1 - i]]

\* the step is a run of main (a re-import changes the section files)
IsRunStep == sdp_files' = sdp_files /\ ~IsNone(last_run')

C12_Independence ==
  [][/\ registry' = registry
     /\ IsRunStep =>
          \E run \in {TheValue(last_run')} :
            /\ \A g \in DOMAIN goal_files :
                 (\A k \in 1..Len(run.goals) : run.goals[k] # g) =>
                   goal_files'[g] = goal_files[g] /\ results'[g] = results[g]
            /\ \A k \in 1..Len(run.goals) :
                 \E alone \in {assign_skills_to_goal(run.goals[k], goal_files[run.goals[k]],
                                                     registry, sdp_sections_dir,
                                                     run.dry_run, Dates[1])} :
                   /\ results'[run.goals[k]] = Some(alone.result)
                   /\ goal_files'[run.goals[k]] = alone.content
            /\ Len(run.goals) > 1 =>
                 \E opposite \in {process_goals(Reverse(run.goals), 1, goal_files,
                                                registry, sdp_sections_dir, run.dry_run,
                                                Dates[1])} :
                   \A k \in 1..Len(run.goals) :
                     results'[run.goals[k]]
                       = Some(opposite.outs[Len(run.goals) + 1 - k].result)]_vars

\* a run that wrote the files of two goals has been made, and after it a run
\* for one of the two goals
C12_Witness ==
  /\ ~IsNone(last_run)
  /\ Len(TheValue(last_run).goals) = 1
  /\ ~TheValue(last_run).dry_run
  /\ \E g, h \in DOMAIN results :
       /\ g # h
       /\ HasRun(g) /\ HasRun(h)
       /\ Len(Assigned(g)) > 0 /\ Len(Assigned(h)) > 0
       /\ FmHas(parse_goal_frontmatter(goal_files[g]).frontmatter, <<"s","k","i","l","l","s">>)
       /\ FmHas(parse_goal_frontmatter(goal_files[h]).frontmatter, <<"s","k","i","l","l","s">>)

(***************************************************************************)
(* C13: the summary table written by a run has one row for each skill      *)
(* that some assignment of the run includes; its count is the number of    *)
(* goals of the run whose assignment includes the skill, its has-file flag *)
(* is set exactly when some occurrence of the skill carries a path, and    *)
(* the rows are the same when the assignments are listed in the opposite   *)
(* order.                                                                  *)
(***************************************************************************)
\* the latest run wrote the skills map
MapWritten == ~IsNone(last_run) /\ ~TheValue(last_run).dry_run

\* the assignments the latest run handed to generate_skills_map
RunAssignments ==
  LET goals == TheValue(last_run).goals
  IN  [k \in 1..Len(goals) |-> TheValue(results[goals[k]])]

RowsOf(table) == {table[r] : r \in 1..Len(table)}

C13_SummaryCounts ==
  MapWritten =>
    \E goals \in {TheValue(last_run).goals}, table \in {TheValue(skills_map)} :
      LET GoalsWith(name) == {k \in 1..Len(goals) : IsAssigned(goals[k], name)}
          used == UNION {{Assigned(goals[k])[e].name : e \in 1..Len(Assigned(goals[k]))} :
                           k \in 1..Len(goals)}
      IN  /\ {table[r].skill : r \in 1..Len(table)} = used
          /\ \A r, s \in 1..Len(table) : r # s => table[r].skill # table[s].skill
          /\ \A r \in 1..Len(table) :
               /\ table[r].count = Cardinality(GoalsWith(table[r].skill))
               /\ table[r].has_file
                    = \E k \in GoalsWith(table[r].skill) :
                        ~IsNone(EntryOf(goals[k], table[r].skill).path)
          /\ RowsOf(skill_usage_summary(Reverse(RunAssignments))) = RowsOf(table)

\* a skills map written for two goals: one skill is used by both, one by a
\* single goal, one carries a path and one does not
C13_Witness ==
  /\ MapWritten
  /\ Len(TheValue(last_run).goals) = 2
  /\ \E r, s, t, u \in 1..Len(TheValue(skills_map)) :
       /\ TheValue(skills_map)[r].count = 2
       /\ TheValue(skills_map)[s].count = 1
       /\ TheValue(skills_map)[t].has_file
       /\ ~TheValue(skills_map)[u].has_file

(***************************************************************************)
(* C14: a dry run changes no file: the content of every goal file and the  *)
(* skills map are after the run what they were before it, and so is the    *)
(* registry.                                                               *)
(***************************************************************************)
C14_DryRunWritesNothing ==
  [][(IsRunStep /\ TheValue(last_run').dry_run) =>
       /\ goal_files' = goal_files
       /\ skills_map' = skills_map
       /\ registry' = registry]_vars

\* a dry run has assigned skills to a goal whose file lists no skills, and no
\* skills map has been written
C14_Witness ==
  /\ ~IsNone(last_run)
  /\ TheValue(last_run).dry_run
  /\ IsNone(skills_map)
  /\ \E k \in 1..Len(TheValue(last_run).goals) :
       /\ Len(Assigned(TheValue(last_run).goals[k])) > 0
       /\ ~FmHas(parse_goal_frontmatter(goal_files[TheValue(last_run).goals[k]]).frontmatter,
                 <<"s","k","i","l","l","s">>)

(***************************************************************************)
(* C15: whenever the call for a goal loaded a section payload, an empty    *)
(* object included, and at least one file-type token of a skill occurs in  *)
(* the payload's serialized text, the file-type signal adds exactly 2 to   *)
(* the skill's score.                                                      *)
(***************************************************************************)
C15_FileTypeWhenPresent ==
  \A g \in DOMAIN results :
    HasRun(g) =>
      \A i \in 1..Len(SkillsConfig) :
        (~IsNone(TheValue(locals[g]).sdp_section) /\ TokensFound(g, i) >= 1)
          => Scored(g, i).score - C9_OtherSignals(g, i) = 2

(***************************************************************************)
(* C16: the section a call looks up for a goal is named by the goal name   *)
(* without its leading "build-" and with nothing else changed, and the     *)
(* payload the call scores with is the content of that section's file.     *)
(***************************************************************************)
WithoutLeadingBuild(g) ==
  IF StartsWith(g, <<"b","u","i","l","d","-">>) THEN SubSeq(g, Len(<<"b","u","i","l","d","-">>) + 1, Len(g)) ELSE g

C16_SectionOfGoal ==
  \A g \in DOMAIN results :
    (HasRun(g) /\ ~IsNone(TheValue(locals[g]).section_name)) =>
      /\ TheValue(TheValue(locals[g]).section_name) = WithoutLeadingBuild(g)
      /\ (WithoutLeadingBuild(g) \in DOMAIN sdp_files) =>
           TheValue(locals[g]).sdp_section = sdp_files[WithoutLeadingBuild(g)]

(***************************************************************************)
(* C17: with n the number of a skill's keywords that occur in the          *)
(* lower-cased serialized section payload, the density signal adds n to    *)
(* the skill's score and one reason reporting n when a payload was loaded  *)
(* and n > 2, and adds nothing and no reason otherwise; it is added to     *)
(* what the keyword signal and the other signals give.                     *)
(***************************************************************************)
KeywordsInSection(g, i) ==
  LET keywords == Get(TriggersOf(i), "keywords", << >>)
      sdp_section == TheValue(locals[g]).sdp_section
  IN  IF IsNone(sdp_section) THEN 0
      ELSE Bind(lower(json_dumps(TheValue(sdp_section))), LAMBDA section_text :
             Cardinality({k \in 1..Len(keywords) :
                            Contains(section_text, lower(keywords[k]))}))

\* what the signals other than the density signal add for skill i
C17_OtherSignals(g, i) ==
  LET inp == TheValue(locals[g])
  IN  keyword_signal(Get(TriggersOf(i), "keywords", << >>), inp.goal_text).score
      + goal_pattern_signal(Get(TriggersOf(i), "goal_patterns", << >>), g).score
      + file_type_signal(Get(TriggersOf(i), "file_types", << >>), inp.sdp_section).score
      + wildcard_signal(Get(TriggersOf(i), "section_types", << >>), g).score

ReasonKind(r) ==
  CASE StartsWith(r, <<"k","e","y","w","o","r","d","s",":"," ">>) -> 1
    [] StartsWith(r, <<"g","o","a","l"," ","p","a","t","t","e","r","n",":"," ">>) -> 2
    [] StartsWith(r, <<"f","i","l","e"," ","t","y","p","e",":"," ">>) -> 3
    [] r = <<"a","p","p","l","i","e","s"," ","t","o"," ","a","l","l"," ","b","u","i","l","d","-","*"," ","g","o","a","l","s">> -> 4
    [] IsDensityReason(r) -> 5
    [] OTHER -> 0

\* the keywords a keyword reason names
NamedKeywords(r) == Split(Suffix(r, Len(<<"k","e","y","w","o","r","d","s",":"," ">>) + 1), <<","," ">>)

\* the keywords of skill i found in the goal text of the latest call for g
MatchedKeywords(g, i) ==
  keyword_hits(Get(TriggersOf(i), "keywords", << >>),
               lower(TheValue(locals[g]).goal_text))

C18_Reasons ==
  \A g \in DOMAIN results :
    HasRun(g) =>
      \A i \in 1..Len(SkillsConfig) :
        \E s \in {signals(SkillsConfig[i].def, TheValue(locals[g]).goal_text, g,
                          TheValue(locals[g]).sdp_section)},
           reasons \in {Scored(g, i).reasons} :
          LET contributing == SelectSeq(<< 1, 2, 3, 4, 5 >>, LAMBDA k : s[k].score >= 1)
          IN  /\ Scored(g, i).score
                   = s[1].score + s[2].score + s[3].score + s[4].score + s[5].score
              /\ Len(reasons) = Len(contributing)
              /\ \A r \in 1..Len(reasons) : ReasonKind(reasons[r]) = contributing[r]
              /\ (Len(reasons) = 0) = (Scored(g, i).score = 0)
              /\ \A r \in 1..Len(reasons) :
                   ReasonKind(reasons[r]) = 1 =>
                     \E matched \in {MatchedKeywords(g, i)} :
                       /\ Len(NamedKeywords(reasons[r])) <= 5
                       /\ NamedKeywords(reasons[r])
                            = SubSeq(matched, 1, Min(Len(matched), 5))

\* a skill with six matched keywords and four reasons, and for another goal
\* a skill with score 0
C18_Witness ==
  /\ \E g \in DOMAIN results :
       /\ HasRun(g)
       /\ \E i \in 1..Len(SkillsConfig) :
            Len(MatchedKeywords(g, i)) = 6 /\ Len(Scored(g, i).reasons) = 4
  /\ \E g \in DOMAIN results :
       /\ HasRun(g)
       /\ \E i \in 1..Len(SkillsConfig) :
            /\ Scored(g, i).score = 0
            /\ "triggers" \in DOMAIN SkillsConfig[i].def

(***************************************************************************)
(* C19: the composites a call returns are the composites of the registry   *)
(* that have a trigger matching the lower-cased goal name or the           *)
(* lower-cased goal text, each once and in the order of the registry; a    *)
(* composite without triggers, or with an empty trigger list, is not       *)
(* among them.                                                             *)
(***************************************************************************)
CompositesConfig == Get(registry, "composites", << >>)

\* the triggers of composite number c that match the name or the text of the
\* latest call for g
TriggersMatching(g, c) ==
  LET triggers == Get(CompositesConfig[c].def, "triggers", << >>)
  IN  Bind(<< lower(g), lower(TheValue(locals[g]).goal_text) >>, LAMBDA lowered :
        {t \in 1..Len(triggers) :
           re_search(triggers[t], lowered[1]) \/ re_search(triggers[t], lowered[2])})

C19_CompositesReturned ==
  \A g \in DOMAIN results :
    HasRun(g) =>
      \E matching \in {[c \in 1..Len(CompositesConfig) |-> TriggersMatching(g, c) # {}]} :
        LET expected == SelectSeq(SubSeq([c \in 1..Len(CompositesConfig) |-> c],
                                         1, Len(CompositesConfig)),
                                  LAMBDA c : matching[c])
        IN  /\ Len(Matched(g)) = Len(expected)
            /\ \A k \in 1..Len(expected) :
                 /\ Matched(g)[k].name = CompositesConfig[expected[k]].name
                 /\ Matched(g)[k].skills = CompositesConfig[expected[k]].def.skills
            /\ \A c \in 1..Len(CompositesConfig) :
                 Len(Get(CompositesConfig[c].def, "triggers", << >>)) = 0 =>
                   \A k \in 1..Len(Matched(g)) :
                     Matched(g)[k].name # CompositesConfig[c].name

\* two composites returned around one with an empty trigger list that is not
\* returned; three triggers of the first match, one of them the text only
C19_Witness ==
  \E g \in DOMAIN results :
    /\ HasRun(g)
    /\ Len(CompositesConfig) = 3
    /\ Len(Matched(g)) = 2
    /\ Matched(g)[1].name = CompositesConfig[1].name
    /\ Matched(g)[2].name = CompositesConfig[3].name
    /\ "triggers" \in DOMAIN CompositesConfig[2].def
    /\ Cardinality(TriggersMatching(g, 1)) >= 2
    /\ \E t \in TriggersMatching(g, 1) :
         ~re_search(CompositesConfig[1].def.triggers[t], lower(g))

(***************************************************************************)
(* C20: after a run that is not a dry run, the skills list in the          *)
(* frontmatter of every goal the run processed is the list of skill names  *)
(* of the assignment the run returned for the goal; in particular it is    *)
(* empty or absent when the run assigned no skills.                        *)
(***************************************************************************)
\* the skills list read back from the goal file, empty when there is none
FrontmatterSkills(g) ==
  LET frontmatter == parse_goal_frontmatter(goal_files[g]).frontmatter
  IN  IF FmHas(frontmatter, <<"s","k","i","l","l","s">>) THEN FmGet(frontmatter, <<"s","k","i","l","l","s">>).items
      ELSE << >>

C20_FrontmatterIsLatest ==
  MapWritten =>
    \A k \in 1..Len(TheValue(last_run).goals) :
      \E g \in {TheValue(last_run).goals[k]} :
        FrontmatterSkills(g) = [e \in 1..Len(Assigned(g)) |-> Assigned(g)[e].name]

====
